---- MODULE Spec2Model ----
(***************************************************************************)
(* The useForm hook: a ref to a form element and the operations onSubmit,  *)
(* reset, getFormData and setValue on it, together with the part of the    *)
(* DOM the hook calls into (FormData construction, elements.namedItem,     *)
(* the value setters and form.reset).                                      *)
(***************************************************************************)
EXTENDS Integers, Sequences, FiniteSets

VARIABLES
  impl,        \* which module built the handle: "useForm" or "useForm.hook"
  ref,         \* ref.current: NULL or FORM (the element held in form)
  form,        \* the form element's listed controls, in tree order
  original,    \* the record of the element's entries when it was mounted
  lastOp,      \* the last call: [op, name, value]
  log,         \* the effects of the last call, in execution order
  event,       \* the event handed to the last submit handler call
  returned,    \* what the last call returned
  submitted,   \* the arguments the Submit Callback got during the last call
  threw,       \* whether the last call raised an exception
  nSubmits,    \* submit handler calls so far
  nBound,      \* submit handler calls made while ref.current was set
  nCalls       \* Submit Callback invocations so far

vars == <<impl, ref, form, original, lastOp, log, event, returned, submitted,
          threw, nSubmits, nBound, nCalls>>

\* ---------------------------------------------------------------- bounds

MaxSubmits == 2
MaxLen == 3

NULL == "null"
FORM == "form"

\* ------------------------------------------------------------ DOM: controls

Opt(v, sel) == [value |-> v, selected |-> sel, defaultSelected |-> sel]

Control(kind, name, id, value, checked, disabled, multiple, options) ==
  [kind |-> kind, name |-> name, id |-> id,
   value |-> value, defaultValue |-> value,
   checked |-> checked, defaultChecked |-> checked,
   disabled |-> disabled, multiple |-> multiple, options |-> options]

Text(name, value) == Control("text", name, "", value, FALSE, FALSE, FALSE, <<>>)
Email(name, value) == Control("email", name, "", value, FALSE, FALSE, FALSE, <<>>)
Password(name, value) == Control("password", name, "", value, FALSE, FALSE, FALSE, <<>>)
TextId(name, id, value) == Control("text", name, id, value, FALSE, FALSE, FALSE, <<>>)
DisabledText(name, value) == Control("text", name, "", value, FALSE, TRUE, FALSE, <<>>)
Checkbox(name, value, checked) ==
  Control("checkbox", name, "", value, checked, FALSE, FALSE, <<>>)
Radio(name, value, checked) ==
  Control("radio", name, "", value, checked, FALSE, FALSE, <<>>)
RadioId(name, id, value, checked) ==
  Control("radio", name, id, value, checked, FALSE, FALSE, <<>>)
Select(name, multiple, options) ==
  Control("select", name, "", "", FALSE, FALSE, multiple, options)
Fieldset(name) == Control("fieldset", name, "", "", FALSE, FALSE, FALSE, <<>>)
\* A textarea; value is its raw value, defaultValue its text content.
TextArea(name, value) == Control("textarea", name, "", value, FALSE, FALSE, FALSE, <<>>)
\* A file input; no file is ever selected, so its value stays empty.
FileInput(name) == Control("file", name, "", "", FALSE, FALSE, FALSE, <<>>)

\* The forms the host framework can mount, as their markup gives them: value,
\* checked and selected are the content attributes.
LoginForm == << Email("email", "a@x.com"), Password("password", "p1") >>

TagsForm ==
  << Fieldset("group"),
     Select("tags", TRUE, << Opt("x", TRUE), Opt("y", TRUE), Opt("z", FALSE) >>),
     Checkbox("agree", "on", TRUE) >>

MixedForm ==
  << Radio("plan", "y", TRUE), Radio("plan", "x", TRUE),
     Select("color", FALSE, << Opt("x", TRUE), Opt("y", TRUE) >>),
     Text("tag", "t1"), Text("tag", "t2"),
     TextId("nick", "alias", "bo\nb") >>

LockedForm == << DisabledText("locked", "l0") >>

\* A radio button whose id is the name of another control.
IdNameForm == << Text("tag", "t1"), RadioId("news", "tag", "on", FALSE) >>

\* A file input and a textarea.
UploadForm == << FileInput("doc"), TextArea("notes", "n1") >>

\* Controls whose name or id is the name of a member of the form element.
ElementsForm == << Text("elements", "e0"), Email("email", "a@x.com") >>
SelectElementsForm ==
  << Select("elements", FALSE, << Opt("x", TRUE) >>), Text("tag", "t1") >>
ResetIdForm == << TextId("go", "reset", "r0"), Text("tag", "t1") >>

Forms == { LoginForm, TagsForm, MixedForm, LockedForm, IdNameForm, UploadForm,
           ElementsForm, SelectElementsForm, ResetIdForm }

Names == { "email", "group", "tags", "agree", "news", "plan",
           "color", "tag", "nick", "alias", "locked", "doc", "notes",
           "nonexistent", "" }
Values == { "y", "new@x.com", " a\nb", "" }

\* --------------------------------------------------- DOM: new FormData(form)

RECURSIVE SelectedEntries(_, _)
SelectedEntries(name, options) ==
  IF options = <<>> THEN <<>>
  ELSE (IF Head(options).selected
          THEN << [name |-> name, value |-> Head(options).value] >>
          ELSE <<>>)
       \o SelectedEntries(name, Tail(options))

\* The empty File object that stands in the entry list for a file input
\* without selected files, written as its string conversion.
EmptyFile == "[object File]"

\* A textarea's value as read: CRLF and lone CR become LF.
RECURSIVE NormalizeNewlines(_)
NormalizeNewlines(s) ==
  IF Len(s) = 0 THEN ""
  ELSE IF Len(s) >= 2 /\ SubSeq(s, 1, 2) = "\r\n"
    THEN "\n" \o NormalizeNewlines(SubSeq(s, 3, Len(s)))
  ELSE IF SubSeq(s, 1, 1) = "\r"
    THEN "\n" \o NormalizeNewlines(SubSeq(s, 2, Len(s)))
  ELSE SubSeq(s, 1, 1) \o NormalizeNewlines(SubSeq(s, 2, Len(s)))

\* The entries one control contributes to the entry list.
ControlEntries(c) ==
  IF c.kind = "fieldset" \/ c.disabled \/ c.name = "" THEN <<>>
  ELSE IF c.kind \in {"checkbox", "radio"}
    THEN (IF c.checked THEN << [name |-> c.name, value |-> c.value] >> ELSE <<>>)
  ELSE IF c.kind = "select" THEN SelectedEntries(c.name, c.options)
  ELSE IF c.kind = "file" THEN << [name |-> c.name, value |-> EmptyFile] >>
  ELSE IF c.kind = "textarea"
    THEN << [name |-> c.name, value |-> NormalizeNewlines(c.value)] >>
  ELSE << [name |-> c.name, value |-> c.value] >>

RECURSIVE FormData(_)
FormData(f) ==
  IF f = <<>> THEN <<>> ELSE ControlEntries(Head(f)) \o FormData(Tail(f))

\* ------------------------------------------------------------ parseFormData

Scalar(v) == [multi |-> FALSE, vals |-> << v >>]
Multi(vs) == [multi |-> TRUE, vals |-> vs]
EmptyRecord == [n \in {} |-> Scalar("")]

\* One entry added to the record built so far.
AddEntry(rec, e) ==
  [n \in DOMAIN rec \cup {e.name} |->
     IF n # e.name THEN rec[n]
     ELSE IF n \in DOMAIN rec THEN Multi(Append(rec[n].vals, e.value))
     ELSE Scalar(e.value)]

RECURSIVE parseFrom(_, _)
parseFrom(rec, entries) ==
  IF entries = <<>> THEN rec
  ELSE parseFrom(AddEntry(rec, Head(entries)), Tail(entries))

parseFormData(entries) == parseFrom(EmptyRecord, entries)

\* ------------------------------------------- DOM: form.elements.namedItem

Matches(f, name) ==
  { i \in 1..Len(f) : name # "" /\ (f[i].id = name \/ f[i].name = name) }

\* What reading a member of the form element gives: a control whose name or
\* id is the member's name takes the place of the form's own member, one
\* control as itself and several as a RadioNodeList.
FormMember(f, member) ==
  LET m == Matches(f, member) IN
  IF m = {} THEN [kind |-> "own", at |-> {}]
  ELSE IF Cardinality(m) = 1 THEN [kind |-> "element", at |-> m]
  ELSE [kind |-> "RadioNodeList", at |-> m]

\* namedItem of the form's own elements collection: NULL, one control, or a
\* RadioNodeList of several.
CollectionItem(f, name) ==
  LET m == Matches(f, name) IN
  IF m = {} THEN [kind |-> NULL, at |-> {}]
  ELSE IF Cardinality(m) = 1 THEN [kind |-> "element", at |-> m]
  ELSE [kind |-> "RadioNodeList", at |-> m]

\* ref.current.elements.namedItem(name). When a control stands in for
\* elements, a select answers with its own namedItem, which looks among its
\* options (they carry no name or id here, so it finds none); any other
\* control, and a RadioNodeList, has no namedItem and the call raises a
\* TypeError.
namedItem(f, name) ==
  LET elements == FormMember(f, "elements") IN
  IF elements.kind = "own" THEN CollectionItem(f, name)
  ELSE IF elements.kind = "element" /\ \A i \in elements.at : f[i].kind = "select"
    THEN [kind |-> NULL, at |-> {}]
  ELSE [kind |-> "TypeError", at |-> {}]

\* 'value' in element
HasValue(f, item) ==
  \/ item.kind = "RadioNodeList"
  \/ item.kind = "element" /\ \A i \in item.at : f[i].kind # "fieldset"

\* -------------------------------------------- DOM: value sanitisation

TextKinds == { "text", "email", "password" }
LineBreaks == { "\n", "\r" }
Whitespace == { " ", "\t", "\n", "\f", "\r" }

RECURSIVE StripLineBreaks(_)
StripLineBreaks(s) ==
  IF Len(s) = 0 THEN ""
  ELSE (IF SubSeq(s, 1, 1) \in LineBreaks THEN "" ELSE SubSeq(s, 1, 1))
       \o StripLineBreaks(SubSeq(s, 2, Len(s)))

RECURSIVE TrimLeft(_)
TrimLeft(s) ==
  IF Len(s) > 0 /\ SubSeq(s, 1, 1) \in Whitespace
    THEN TrimLeft(SubSeq(s, 2, Len(s)))
  ELSE s

RECURSIVE TrimRight(_)
TrimRight(s) ==
  IF Len(s) > 0 /\ SubSeq(s, Len(s), Len(s)) \in Whitespace
    THEN TrimRight(SubSeq(s, 1, Len(s) - 1))
  ELSE s

\* A single-line input drops line breaks; an e-mail input also drops the
\* white space around the value.
Sanitize(kind, v) ==
  IF kind = "email" THEN TrimRight(TrimLeft(StripLineBreaks(v)))
  ELSE IF kind \in TextKinds THEN StripLineBreaks(v)
  ELSE v

\* ------------------------------------------------- DOM: the value setters

RECURSIVE SelectFirst(_, _, _)
SelectFirst(options, v, found) ==
  IF options = <<>> THEN <<>>
  ELSE LET o == Head(options)
           hit == ~found /\ o.value = v
       IN << [o EXCEPT !.selected = hit] >>
          \o SelectFirst(Tail(options), v, found \/ hit)

\* A file input accepts only the empty string, which empties its list of
\* selected files; any other value raises an InvalidStateError.
ValueSetterRaises(c, v) == c.kind = "file" /\ v # ""

\* element.value = v on one control, when the setter does not raise. A
\* textarea stores v as its raw value; on a fieldset, which has no value, the
\* assignment touches no control state.
SetControlValue(c, v) ==
  IF c.kind \in TextKinds THEN [c EXCEPT !.value = Sanitize(c.kind, v)]
  ELSE IF c.kind \in {"checkbox", "radio"}
    THEN [c EXCEPT !.value = v, !.defaultValue = v]
  ELSE IF c.kind = "select"
    THEN [c EXCEPT !.options = SelectFirst(c.options, v, FALSE)]
  ELSE IF c.kind = "textarea" THEN [c EXCEPT !.value = v]
  ELSE c

\* Checking a radio button unchecks the others of its group.
CheckRadio(f, i) ==
  [j \in 1..Len(f) |->
     IF j = i THEN [f[j] EXCEPT !.checked = TRUE]
     ELSE IF f[j].kind = "radio" /\ f[j].name = f[i].name /\ f[i].name # ""
       THEN [f[j] EXCEPT !.checked = FALSE]
     ELSE f[j]]

Min(S) == CHOOSE i \in S : \A j \in S : i <= j

\* RadioNodeList.value = v: the first radio button of the list whose value is
\* v is checked; a radio button with an empty value is never matched.
SetRadioNodeListValue(f, at, v) ==
  LET hits == { i \in at : f[i].kind = "radio" /\ f[i].value # "" /\ f[i].value = v } IN
  IF hits = {} THEN f ELSE CheckRadio(f, Min(hits))

\* element.value = v raises, for what namedItem returned
ItemSetterRaises(f, item, v) ==
  item.kind = "element" /\ \E i \in item.at : ValueSetterRaises(f[i], v)

\* element.value = v, for what namedItem returned
SetItemValue(f, item, v) ==
  IF item.kind = "RadioNodeList" THEN SetRadioNodeListValue(f, item.at, v)
  ELSE [j \in 1..Len(f) |-> IF j \in item.at THEN SetControlValue(f[j], v) ELSE f[j]]

\* ------------------------------------------------------- DOM: form.reset()

ResetOptions(options) ==
  [i \in 1..Len(options) |->
     [options[i] EXCEPT !.selected = options[i].defaultSelected]]

Max(S) == CHOOSE i \in S : \A j \in S : j <= i

\* A single-selection list shows its first option when none is selected, and
\* keeps only the last of several selected options.
AskForReset(c) ==
  LET sel == { i \in 1..Len(c.options) : c.options[i].selected } IN
  IF c.multiple \/ c.options = <<>> THEN c
  ELSE IF sel = {} THEN [c EXCEPT !.options[1].selected = TRUE]
  ELSE [c EXCEPT !.options =
          [i \in 1..Len(c.options) |->
             [c.options[i] EXCEPT !.selected = (i = Max(sel))]]]

ResetControl(c) ==
  IF c.kind \in TextKinds THEN [c EXCEPT !.value = Sanitize(c.kind, c.defaultValue)]
  ELSE IF c.kind \in {"checkbox", "radio"} THEN [c EXCEPT !.checked = c.defaultChecked]
  ELSE IF c.kind = "select" THEN AskForReset([c EXCEPT !.options = ResetOptions(c.options)])
  ELSE IF c.kind = "textarea" THEN [c EXCEPT !.value = c.defaultValue]
  ELSE c

RECURSIVE ResetFrom(_, _)
\* The controls are reset in tree order; a radio button that becomes checked
\* unchecks the others of its group.
ResetFrom(f, i) ==
  IF i > Len(f) THEN f
  ELSE LET c == ResetControl(f[i])
           g == [f EXCEPT ![i] = c]
       IN ResetFrom(IF c.kind = "radio" /\ c.checked THEN CheckRadio(g, i) ELSE g, i + 1)

\* ref.current.reset is not the method when a control is named, or has the
\* id, reset: the call raises a TypeError.
ResetRaises(f) == FormMember(f, "reset").kind # "own"

\* ref.current.reset(): nothing is reset when the call raises.
ResetForm(f) == IF ResetRaises(f) THEN f ELSE ResetFrom(f, 1)

\* The element as the browser first shows it: every control in its default state.
Rendered(f) == ResetFrom(f, 1)

\* ------------------------------------------------------------ the handlers

Undefined == [kind |-> "undefined", data |-> EmptyRecord]
Null == [kind |-> "null", data |-> EmptyRecord]
RecordValue(rec) == [kind |-> "record", data |-> rec]

\* What one call does: the element afterwards, the value returned, the
\* arguments handed to the Submit Callback, and the effects in order.
Outcome(f, ret, args, effects) ==
  [form |-> f, returned |-> ret, submitted |-> args, log |-> effects, threw |-> FALSE]

Thrown(f, effects) ==
  [form |-> f, returned |-> Undefined, submitted |-> <<>>, log |-> effects, threw |-> TRUE]

\* Variants of the handlers, each with one slip.

\* onSubmit without the check of ref.current: new FormData(null) raises a TypeError.
onSubmitUnguarded(r, f) ==
  IF r = NULL THEN Thrown(f, << "preventDefault", "FormData" >>)
  ELSE Outcome(f, Undefined, << parseFormData(FormData(f)) >>,
               << "preventDefault", "FormData", "parseFormData", "submit" >>)

\* onSubmit that hands the record to the callback twice.
onSubmitTwice(r, f) ==
  IF r = NULL THEN Outcome(f, Undefined, <<>>, << "preventDefault" >>)
  ELSE Outcome(f, Undefined, << parseFormData(FormData(f)), parseFormData(FormData(f)) >>,
               << "preventDefault", "FormData", "parseFormData", "submit", "submit" >>)

\* onSubmit that suppresses the default only after the guard and the extraction.
onSubmitPreventLast(r, f) ==
  IF r = NULL THEN Outcome(f, Undefined, <<>>, <<>>)
  ELSE Outcome(f, Undefined, << parseFormData(FormData(f)) >>,
               << "FormData", "parseFormData", "preventDefault", "submit" >>)

\* formData.getAll(name) for every key: every value a sequence.
GetAll(entries) ==
  [n \in { entries[i].name : i \in 1..Len(entries) } |->
     [multi |-> TRUE,
      vals |-> LET idx == { i \in 1..Len(entries) : entries[i].name = n }
               IN IF Cardinality(idx) = 1
                    THEN << entries[CHOOSE i \in idx : TRUE].value >>
                    ELSE parseFormData(entries)[n].vals]]

onSubmitGetAll(r, f) ==
  IF r = NULL THEN Outcome(f, Undefined, <<>>, << "preventDefault" >>)
  ELSE Outcome(f, Undefined, << GetAll(FormData(f)) >>,
               << "preventDefault", "FormData", "parseFormData", "submit" >>)

onSubmit(r, f) ==
  IF r = NULL THEN Outcome(f, Undefined, <<>>, << "preventDefault" >>)
  ELSE LET formData == FormData(f)
           data == parseFormData(formData)
       IN Outcome(f, Undefined, << data >>,
                  << "preventDefault", "FormData", "parseFormData", "submit" >>)

\* The handler of useForm.hook.ts, which names the callback handleSubmit.
submit(r, f) ==
  IF r = NULL THEN Outcome(f, Undefined, <<>>, << "preventDefault" >>)
  ELSE LET formData == FormData(f)
           data == parseFormData(formData)
       IN Outcome(f, Undefined, << data >>,
                  << "preventDefault", "FormData", "parseFormData", "handleSubmit" >>)

reset(r, f) ==
  IF r = NULL THEN Outcome(f, Undefined, <<>>, <<>>)
  ELSE IF ResetRaises(f) THEN Thrown(ResetForm(f), <<>>)
  ELSE Outcome(ResetForm(f), Undefined, <<>>, << "reset" >>)

\* getFormData that goes through the submission path and invokes the callback.
getFormDataSubmitting(r, f) ==
  IF r = NULL THEN Outcome(f, Null, <<>>, <<>>)
  ELSE Outcome(f, RecordValue(parseFormData(FormData(f))), << parseFormData(FormData(f)) >>,
               << "FormData", "parseFormData", "submit" >>)

\* Object.fromEntries(formData): the last value of a repeated name wins.
FromEntries(entries) ==
  [n \in { entries[i].name : i \in 1..Len(entries) } |->
     LET last == CHOOSE i \in 1..Len(entries) :
                   /\ entries[i].name = n
                   /\ \A j \in (i+1)..Len(entries) : entries[j].name # n
     IN [multi |-> FALSE, vals |-> << entries[last].value >>]]

getFormDataFromEntries(r, f) ==
  IF r = NULL THEN Outcome(f, Null, <<>>, <<>>)
  ELSE Outcome(f, RecordValue(FromEntries(FormData(f))), <<>>, << "FormData", "fromEntries" >>)

\* getFormData that answers from the record computed when the element mounted.
getFormDataCached(r, f) ==
  IF r = NULL THEN Outcome(f, Null, <<>>, <<>>)
  ELSE Outcome(f, RecordValue(original), <<>>, <<>>)

getFormData(r, f) ==
  IF r = NULL THEN Outcome(f, Null, <<>>, <<>>)
  ELSE LET formData == FormData(f)
           data == parseFormData(formData)
       IN Outcome(f, RecordValue(data), <<>>, << "FormData", "parseFormData" >>)

\* setValue that finds the item and never assigns.
setValueNoAssign(r, f, name, value) ==
  IF r = NULL THEN Outcome(f, Undefined, <<>>, <<>>)
  ELSE Outcome(f, Undefined, <<>>, << "namedItem" >>)

setValue(r, f, name, value) ==
  IF r = NULL THEN Outcome(f, Undefined, <<>>, <<>>)
  ELSE LET element == namedItem(f, name) IN
       IF element.kind = "TypeError" THEN Thrown(f, <<>>)
       ELSE IF element.kind # NULL /\ HasValue(f, element)
         THEN (IF ItemSetterRaises(f, element, value)
                 THEN Thrown(f, << "namedItem", "value=" >>)
               ELSE Outcome(SetItemValue(f, element, value), Undefined, <<>>,
                            << "namedItem", "value=" >>))
       ELSE Outcome(f, Undefined, <<>>, << "namedItem" >>)

\* ------------------------------------------------------------------ state

NoEvent == [dispatched |-> FALSE, defaultPrevented |-> FALSE]
EventAfter(effects) ==
  [dispatched |-> TRUE,
   defaultPrevented |-> \E i \in 1..Len(effects) : effects[i] = "preventDefault"]

Call(op, name, value) == [op |-> op, name |-> name, value |-> value]

Init ==
  /\ impl \in {"useForm", "useForm.hook"}
  /\ ref = NULL
  /\ form = <<>>
  /\ original = EmptyRecord
  /\ lastOp = Call("useForm", "", "")
  /\ log = <<>>
  /\ event = NoEvent
  /\ returned = Undefined
  /\ submitted = <<>>
  /\ threw = FALSE
  /\ nSubmits = 0
  /\ nBound = 0
  /\ nCalls = 0

\* The state a call leaves, from its outcome.
Apply(call, out) ==
  /\ lastOp' = call
  /\ form' = out.form
  /\ returned' = out.returned
  /\ submitted' = out.submitted
  /\ log' = out.log
  /\ threw' = out.threw
  /\ nCalls' = nCalls + Len(out.submitted)
  /\ UNCHANGED <<impl, ref, original>>

\* The host framework attaches the ref when the form element mounts.
Mount ==
  \E f \in Forms :
    /\ ref = NULL
    /\ ref' = FORM
    /\ form' = Rendered(f)
    /\ original' = parseFormData(FormData(Rendered(f)))
    /\ lastOp' = Call("mount", "", "")
    /\ log' = <<>> /\ event' = NoEvent /\ returned' = Undefined
    /\ submitted' = <<>> /\ threw' = FALSE
    /\ UNCHANGED <<impl, nSubmits, nBound, nCalls>>

\* ... and clears it when the element unmounts.
Unmount ==
  /\ ref = FORM
  /\ ref' = NULL
  /\ lastOp' = Call("unmount", "", "")
  /\ log' = <<>> /\ event' = NoEvent /\ returned' = Undefined
  /\ submitted' = <<>> /\ threw' = FALSE
  /\ UNCHANGED <<impl, form, original, nSubmits, nBound, nCalls>>

SubmitCall(call, out) ==
  /\ nSubmits < MaxSubmits
  /\ Apply(call, out)
  /\ event' = EventAfter(out.log)
  /\ nSubmits' = nSubmits + 1
  /\ nBound' = IF ref # NULL THEN nBound + 1 ELSE nBound

OnSubmit ==
  /\ impl = "useForm"
  /\ SubmitCall(Call("onSubmit", "", ""), onSubmit(ref, form))

Submit ==
  /\ impl = "useForm.hook"
  /\ SubmitCall(Call("submit", "", ""), submit(ref, form))

Reset ==
  /\ impl = "useForm"
  /\ Apply(Call("reset", "", ""), reset(ref, form))
  /\ event' = NoEvent
  /\ UNCHANGED <<nSubmits, nBound>>

GetFormData ==
  /\ impl = "useForm"
  /\ Apply(Call("getFormData", "", ""), getFormData(ref, form))
  /\ event' = NoEvent
  /\ UNCHANGED <<nSubmits, nBound>>

SetValue ==
  \E name \in Names, value \in Values :
    /\ impl = "useForm"
    /\ Apply(Call("setValue", name, value), setValue(ref, form, name, value))
    /\ event' = NoEvent
    /\ UNCHANGED <<nSubmits, nBound>>

Next == Mount \/ Unmount \/ OnSubmit \/ Submit \/ Reset \/ GetFormData \/ SetValue

Spec == Init /\ [][Next]_vars

\* ------------------------------------ the converter on any entry sequence

ConvNames == { "a", "b" }
ConvValues == { "x", "y" }
ConvFields == { Text(n, v) : n \in ConvNames, v \in ConvValues }

\* A mounted form of text fields, which yields every entry sequence up to MaxLen.
ConvInit ==
  /\ impl = "useForm"
  /\ ref = FORM
  /\ form \in { Rendered(f) : f \in UNION { [1..n -> ConvFields] : n \in 0..MaxLen } }
  /\ original = parseFormData(FormData(form))
  /\ lastOp = Call("mount", "", "")
  /\ log = <<>>
  /\ event = NoEvent
  /\ returned = Undefined
  /\ submitted = <<>>
  /\ threw = FALSE
  /\ nSubmits = 0
  /\ nBound = 0
  /\ nCalls = 0

ConvNext == GetFormData \/ OnSubmit

ConvSpec == ConvInit /\ [][ConvNext]_vars

\* ------------------------------------------------- vocabulary of the claims

SubmitOps == { "onSubmit", "submit" }
HandleOps == SubmitOps \cup { "reset", "getFormData", "setValue" }

\* The Parsed Records the last call produced (returned or handed to the callback).
LastRecords ==
  (IF returned.kind = "record" THEN { returned.data } ELSE {})
  \cup { submitted[i] : i \in 1..Len(submitted) }

\* What getFormData would return for an element.
RecordOf(f) == parseFormData(FormData(f))

RECURSIVE ValuesOf(_, _)
\* The values of the entries named n, in occurrence order.
ValuesOf(entries, n) ==
  IF entries = <<>> THEN <<>>
  ELSE (IF Head(entries).name = n THEN << Head(entries).value >> ELSE <<>>)
       \o ValuesOf(Tail(entries), n)

EntryNames(entries) == { entries[i].name : i \in 1..Len(entries) }

\* The names of the element's fields (named, value-bearing controls).
FieldNames(f) ==
  { f[i].name : i \in { j \in 1..Len(f) : f[j].kind # "fieldset" /\ f[j].name # "" } }

\* A control that contributes at least one entry.
Successful(c) ==
  /\ c.kind # "fieldset" /\ c.name # "" /\ ~c.disabled
  /\ (c.kind \in {"checkbox", "radio"} => c.checked)
  /\ (c.kind = "select" => \E i \in 1..Len(c.options) : c.options[i].selected)

SuccessfulNames(f) == { f[i].name : i \in { j \in 1..Len(f) : Successful(f[j]) } }

\* ------------------------------------------------------------------ claims

\* C1 as stated: a call of any of the four operations while the reference is
\* unbound raises no exception and has no observable side effect: the event is
\* left alone, no field value changes, the Submit Callback is not invoked, and
\* getFormData returns null.
C1_UnboundNoEffect ==
  [][(ref = NULL /\ lastOp'.op \in HandleOps) =>
       /\ ~threw'
       /\ form' = form
       /\ nCalls' = nCalls /\ submitted' = <<>>
       /\ ~event'.defaultPrevented
       /\ (lastOp'.op = "getFormData" => returned' = Null)]_vars

\* C1 amended: while the reference is unbound no operation raises an exception,
\* changes a field value or invokes the Submit Callback, and getFormData returns
\* null; the submit handler still suppresses the event's default behaviour,
\* which is its only effect.
C1_UnboundOnlyPreventsDefault ==
  [][(ref = NULL /\ lastOp'.op \in HandleOps) =>
       /\ ~threw'
       /\ form' = form
       /\ nCalls' = nCalls /\ submitted' = <<>>
       /\ (lastOp'.op \in SubmitOps <=> event'.defaultPrevented)
       /\ (lastOp'.op \in SubmitOps => log' = << "preventDefault" >>)
       /\ (lastOp'.op \notin SubmitOps => log' = <<>>)
       /\ (lastOp'.op = "getFormData" => returned' = Null)]_vars

\* An unbound submit handler call after a mount and an unmount: the default is
\* suppressed and nothing else happened.
C1_Witness ==
  /\ ref = NULL /\ form # <<>>
  /\ lastOp.op = "onSubmit"
  /\ event.defaultPrevented
  /\ nSubmits > nBound /\ nCalls = nBound

\* C2: every submit handler call made while bound invokes the Submit Callback
\* exactly once, within the call, with the record of the element's entries at
\* that moment, and suppresses the default; so the number of callback
\* invocations always equals the number of handler calls made while bound.
C2_OneCallbackPerBoundSubmit ==
  /\ [](nCalls = nBound)
  /\ [][(ref # NULL /\ lastOp'.op \in SubmitOps) =>
          /\ submitted' = << RecordOf(form) >>
          /\ nCalls' = nCalls + 1
          /\ event'.defaultPrevented
          /\ Len(SelectSeq(log', LAMBDA e : e \in {"submit", "handleSubmit"})) = 1]_vars

\* A bound handler call after a setValue changed the element, and an unbound one.
C2_Witness ==
  /\ ref = FORM /\ lastOp.op = "onSubmit"
  /\ nSubmits = 2 /\ nBound = 1 /\ nCalls = 1
  /\ Len(submitted) = 1 /\ submitted[1] # original

\* C7: getFormData only reads: it does not invoke the Submit Callback and leaves
\* every field value and the bound/unbound state unchanged; reset and setValue
\* never invoke the Submit Callback.
C7_GetFormDataOnlyReads ==
  [][/\ (lastOp'.op = "getFormData" =>
           form' = form /\ ref' = ref /\ nCalls' = nCalls /\ submitted' = <<>>)
     /\ (lastOp'.op \in {"reset", "setValue"} =>
           nCalls' = nCalls /\ submitted' = <<>>)]_vars

\* getFormData on a bound, mutated element, after the callback has run once.
C7_Witness ==
  /\ ref = FORM /\ lastOp.op = "getFormData"
  /\ returned.kind = "record" /\ returned.data # original
  /\ nCalls = 1

\* C9: in every submit handler call the default is suppressed before the field
\* entries are extracted.
C9_PreventBeforeExtract ==
  lastOp.op \in SubmitOps =>
    \A i \in 1..Len(log) :
      log[i] = "FormData" => \E j \in 1..(i-1) : log[j] = "preventDefault"

\* A bound handler call that did extract the entries.
C9_Witness ==
  /\ lastOp.op \in SubmitOps /\ ref = FORM
  /\ \E i \in 1..Len(log) : log[i] = "FormData"
  /\ Len(submitted) = 1

\* A value-bearing field named n.
HasField(f, n) ==
  n # "" /\ \E i \in 1..Len(f) : f[i].name = n /\ f[i].kind # "fieldset"

\* No control of the element stands in for its elements collection, and n
\* resolves to exactly one control, which is named n, enabled, and a text
\* input whose sanitisation leaves v as it is, a checked checkbox or radio
\* button, or a select with an option v.
Settable(f, n, v) ==
  LET m == Matches(f, n) IN
  /\ FormMember(f, "elements").kind = "own"
  /\ Cardinality(m) = 1
  /\ \A i \in m :
       /\ f[i].name = n /\ ~f[i].disabled
       /\ \/ f[i].kind \in TextKinds /\ Sanitize(f[i].kind, v) = v
          \/ f[i].kind \in {"checkbox", "radio"} /\ f[i].checked
          \/ f[i].kind = "select"
             /\ \E k \in 1..Len(f[i].options) : f[i].options[k].value = v

\* n resolves to nothing, or to one item that is not a field with a settable
\* value: a container, which has no value, or a file input, whose value a
\* script cannot set.
NotSettable(f, n) ==
  LET m == Matches(f, n) IN
  \/ m = {}
  \/ Cardinality(m) = 1 /\ \A i \in m : f[i].kind \in {"fieldset", "file"}

C4_ResetRestoresDefaults ==
  [][(ref = FORM /\ lastOp.op = "reset" /\ lastOp'.op = "getFormData") =>
       returned' = RecordValue(original)]_vars

\* C8 as stated: on a bound element setValue(n, v) is a silent no-op, with no
\* exception and no field value changed, whenever n names no field or names an
\* item that is not a field with a settable value. It fails on a file input:
\* the item passes the 'value' in element test and the assignment raises; and
\* on an element with a control named "elements" the lookup itself raises.
C8_SetValueSilentNoOp ==
  [][(ref = FORM /\ lastOp'.op = "setValue" /\ NotSettable(form, lastOp'.name)) =>
       form' = form /\ ~threw']_vars

\* C10 as stated: every record returned by getFormData or passed to the Submit
\* Callback has as its key set exactly the set of distinct field names present
\* in the currently bound element.
C10_KeysAreFieldNames ==
  ref = FORM => \A rec \in LastRecords : DOMAIN rec = FieldNames(form)

\* C10 amended: every record returned by getFormData or passed to the Submit
\* Callback has as its key set exactly the names of the entries the currently
\* bound element yields at that extraction, that is the names of its enabled
\* controls that are text inputs, textareas, file inputs, checked checkboxes
\* or radio buttons, or selects with a selected option; and each key holds exactly that element's
\* current values for the name, nothing carried over.
C10_KeysAreEntryNames ==
  ref = FORM =>
    \A rec \in LastRecords :
      /\ DOMAIN rec = SuccessfulNames(form)
      /\ \A n \in DOMAIN rec : rec[n].vals = ValuesOf(FormData(form), n)

\* A second extraction, after the callback got an earlier one, from an element
\* one of whose fields yields no entry any more.
C10_Witness ==
  /\ ref = FORM /\ lastOp.op = "getFormData" /\ returned.kind = "record"
  /\ nCalls >= 1
  /\ DOMAIN returned.data # DOMAIN original
  /\ DOMAIN returned.data # FieldNames(form)

\* --------------------------------------------------- claims on the converter

\* C5: a name that occurs k >= 2 times among the entries, with values v1..vk in
\* that order, is mapped to the sequence [v1..vk] in the same order by every
\* record getFormData returns or onSubmit passes.
C5_RepeatedNameKeepsAllValues ==
  LET entries == FormData(form) IN
  \A rec \in LastRecords :
    \A n \in EntryNames(entries) :
      Len(ValuesOf(entries, n)) >= 2 =>
        n \in DOMAIN rec /\ rec[n] = Multi(ValuesOf(entries, n))

\* getFormData returned a repeated name's values in occurrence order, not sorted.
C5_Witness ==
  /\ lastOp.op = "getFormData" /\ returned.kind = "record"
  /\ DOMAIN returned.data = {"a", "b"}
  /\ returned.data["a"] = Multi(<< "y", "x" >>)

\* C6: when the names of the entries are all distinct, the record has exactly
\* one key per name and each key maps to that entry's value as a scalar.
C6_DistinctNamesAreScalars ==
  LET entries == FormData(form) IN
  (\A i, j \in 1..Len(entries) : entries[i].name = entries[j].name => i = j) =>
    \A rec \in LastRecords :
      /\ DOMAIN rec = EntryNames(entries)
      /\ \A i \in 1..Len(entries) : rec[entries[i].name] = Scalar(entries[i].value)

\* onSubmit passed the record of two fields with different names.
C6_Witness ==
  /\ lastOp.op = "onSubmit" /\ Len(submitted) = 1
  /\ DOMAIN submitted[1] = {"a", "b"}
  /\ ~submitted[1]["a"].multi /\ ~submitted[1]["b"].multi

====
